---- MODULE Spec2Model ----
(***************************************************************************)
(* State-machine model of russell_sparse::SparseTriplet, the coordinate    *)
(* (triplet) store of a sparse matrix, and of its consumers.               *)
(*                                                                         *)
(* Floating-point values are modelled by integers (exact arithmetic).      *)
(* Vectors of the backing storage are functions over 0..max-1, as the      *)
(* source indexes them from zero.                                          *)
(***************************************************************************)
EXTENDS Integers, FiniteSets, Sequences, TLC

----------------------------------------------------------------------------
(* Bounds of the model *)

\* largest dimension (neq) given to SparseTriplet::new
MaxNeq == 2

\* largest capacity (max) given to SparseTriplet::new
MaxNnz == 2

\* largest neq * max of a store (the length of one pass of a consumer over a
\* full store, times the dimension)
MaxWork == 4

\* values aij given to put
Values == {-2, 1}

\* values found in a target matrix before to_matrix is called
TargetFill == {0, 7}

\* components of the vectors given to mat_vec_mul
Components == {1, 3}

\* the vectors given to mat_vec_mul on a store of dimension n: every vector of
\* length n, and one vector of each neighbouring length
Vectors(n) ==
    [0 .. n - 1 -> Components]
        \cup {[k \in 0 .. len - 1 |-> 1] : len \in {n - 1, n + 1}}

\* the right-hand sides of length n given to VerifyLinSys::new
RightHandSides(n) ==
    {[k \in 0 .. n - 1 |-> 1], [k \in 0 .. n - 1 |-> IF k = 0 THEN 1 ELSE 0 - 2]}

\* the arguments (x, rhs, triangular) given to VerifyLinSys::new on a store of
\* dimension n: vectors of length n with either mode, and the pairs in which
\* x, rhs or both are one component longer
VerifyArgs(n) ==
    ([0 .. n - 1 -> Components] \X RightHandSides(n) \X BOOLEAN)
        \cup {<<[k \in 0 .. lx - 1 |-> 1], [k \in 0 .. lr - 1 |-> 1], FALSE>> :
                  lx \in {n, n + 1}, lr \in {n, n + 1}}

\* the sizes (neq, max) given to SparseTriplet::new, zero included
Sizes == {s \in (0 .. MaxNeq) \X (0 .. MaxNnz) : s[1] * s[2] <= MaxWork}

----------------------------------------------------------------------------
(* Error messages of the source; OK stands for Ok(..) *)

OK == "ok"
ERR_NEW == "neq and max must be greater than zero"
ERR_ROW == "sparse matrix row index is out of bounds"
ERR_COL == "sparse matrix column index is out of bounds"
ERR_FULL == "current nnz (number of non-zeros) reached maximum limit"
ERR_DIMS == "wrong matrix dimensions"
ERR_U == "u.ndim must equal neq"
ERR_VERIFY == "vector dimensions are incompatible"
ERR_UPDATE == "vectors are incompatible"
PANIC == "panic"

----------------------------------------------------------------------------
(* Integer conversions *)

\* largest i32
I32_MAX == 2147483647

\* what to_i32 yields where it panics (no usize converts to a negative i32)
I32_PANIC == 0 - 1

\* russell_openblas::to_i32: usize -> i32, a panic on a value no i32 holds
to_i32(num) == IF num <= I32_MAX THEN num ELSE I32_PANIC

\* `x as usize` of an i32: the identity on non-negative values; a negative
\* value wraps to a number above every dimension (I32_MAX stands for it)
as_usize(x) == IF x >= 0 THEN x ELSE I32_MAX

----------------------------------------------------------------------------
(* russell_lab::Matrix: dimensions and entries addressed by (row, col) *)

Cells(nrow, ncol) == (0 .. nrow - 1) \X (0 .. ncol - 1)

\* Matrix::filled(nrow, ncol, value); Matrix::new is filled with zero
Matrix_filled(nrow, ncol, value) ==
    [nrow |-> nrow, ncol |-> ncol, data |-> [c \in Cells(nrow, ncol) |-> value]]

Matrix_new(nrow, ncol) == Matrix_filled(nrow, ncol, 0)

\* Matrix::dims
dims(a) == <<a.nrow, a.ncol>>

\* Matrix::fill
fill(a, value) == [a EXCEPT !.data = [c \in DOMAIN a.data |-> value]]

\* Matrix::add: a[i][j] += value
add(a, i, j, value) == [a EXCEPT !.data[<<i, j>>] = @ + value]

\* Matrix::get
get(a, i, j) == a.data[<<i, j>>]

----------------------------------------------------------------------------
(* russell_lab::Vector: components addressed from zero *)

\* Vector::filled(dim, value); Vector::new is filled with zero
Vector_filled(dim, value) == [k \in 0 .. dim - 1 |-> value]

Vector_new(dim) == Vector_filled(dim, 0)

\* Vector::dim
dim(u) == Cardinality(DOMAIN u)

\* f64::abs
abs(x) == IF x < 0 THEN 0 - x ELSE x

\* Vector::norm(EnumVectorNorm::Max): the largest absolute value of the
\* components, zero if there is none; best is the largest before component k
RECURSIVE norm_max_from(_, _, _)
norm_max_from(v, k, best) ==
    IF k >= dim(v) THEN best
    ELSE norm_max_from(v, k + 1, IF abs(v[k]) > best THEN abs(v[k]) ELSE best)

norm_max(v) == norm_max_from(v, 0, 0)

\* russell_lab::update_vector: v := v + alpha * u, refused for vectors of
\* different lengths
update_vector(v, alpha, u) ==
    IF dim(v) # dim(u)
    THEN [err |-> ERR_UPDATE, v |-> v]
    ELSE [err |-> OK, v |-> [k \in DOMAIN v |-> v[k] + alpha * u[k]]]

\* russell_openblas::idamax(n, x, 1): the index, from zero, of the first of the
\* first n components of x of largest absolute value; zero where n is zero
RECURSIVE idamax_from(_, _, _, _)
idamax_from(n, x, k, best) ==
    IF k >= n THEN best
    ELSE idamax_from(n, x, k + 1, IF abs(x[k]) > abs(x[best]) THEN k ELSE best)

idamax(n, x) == idamax_from(n, x, 1, 0)

\* the quotient x / y of two f64, kept as a fraction
div(x, y) == [num |-> x, den |-> y]

----------------------------------------------------------------------------
(* SparseTriplet *)

\* new, accepting a zero size as long as the other one is not zero
new_rejecting_both_zero(neq, max) ==
    IF neq = 0 /\ max = 0
    THEN [err |-> ERR_NEW]
    ELSE [err |-> OK,
          t |-> [neq |-> neq,
                 pos |-> 0,
                 max |-> max,
                 indices_i |-> [p \in 0 .. max - 1 |-> 0],
                 indices_j |-> [p \in 0 .. max - 1 |-> 0],
                 values_aij |-> [p \in 0 .. max - 1 |-> 0]]]

\* new, allocating neq places for the triples
new_allocating_neq(neq, max) ==
    IF neq = 0 \/ max = 0
    THEN [err |-> ERR_NEW]
    ELSE [err |-> OK,
          t |-> [neq |-> neq,
                 pos |-> 0,
                 max |-> max,
                 indices_i |-> [p \in 0 .. neq - 1 |-> 0],
                 indices_j |-> [p \in 0 .. neq - 1 |-> 0],
                 values_aij |-> [p \in 0 .. neq - 1 |-> 0]]]

\* SparseTriplet::new
new(neq, max) ==
    IF neq = 0 \/ max = 0
    THEN [err |-> ERR_NEW]
    ELSE [err |-> OK,
          t |-> [neq |-> neq,
                 pos |-> 0,
                 max |-> max,
                 indices_i |-> [p \in 0 .. max - 1 |-> 0],
                 indices_j |-> [p \in 0 .. max - 1 |-> 0],
                 values_aij |-> [p \in 0 .. max - 1 |-> 0]]]

\* the assignments of put, storing the new triple at position 0 and moving
\* the stored ones up by one
put_store_in_front(t, i, j, aij) ==
    [t EXCEPT !.indices_i = [p \in DOMAIN t.indices_i |->
                                IF p = 0 THEN to_i32(i)
                                ELSE IF p <= t.pos THEN t.indices_i[p - 1] ELSE t.indices_i[p]],
              !.indices_j = [p \in DOMAIN t.indices_j |->
                                IF p = 0 THEN to_i32(j)
                                ELSE IF p <= t.pos THEN t.indices_j[p - 1] ELSE t.indices_j[p]],
              !.values_aij = [p \in DOMAIN t.values_aij |->
                                IF p = 0 THEN aij
                                ELSE IF p <= t.pos THEN t.values_aij[p - 1] ELSE t.values_aij[p]],
              !.pos = t.pos + 1]

\* the assignments of put, but for that of pos
put_store_keeping_pos(t, i, j, aij) ==
    [t EXCEPT !.indices_i[t.pos] = to_i32(i),
              !.indices_j[t.pos] = to_i32(j),
              !.values_aij[t.pos] = aij]

\* the assignments of put once its checks have passed
put_store(t, i, j, aij) ==
    [t EXCEPT !.indices_i[t.pos] = to_i32(i),
              !.indices_j[t.pos] = to_i32(j),
              !.values_aij[t.pos] = aij,
              !.pos = t.pos + 1]

\* put, reporting a full store one triple early
put_full_early(t, i, j, aij) ==
    IF i >= t.neq THEN [err |-> ERR_ROW, t |-> t]
    ELSE IF j >= t.neq THEN [err |-> ERR_COL, t |-> t]
    ELSE IF t.pos + 1 >= t.max THEN [err |-> ERR_FULL, t |-> t]
    ELSE [err |-> OK, t |-> put_store(t, i, j, aij)]

\* put, checking the capacity before the indices
put_capacity_first(t, i, j, aij) ==
    IF t.pos >= t.max THEN [err |-> ERR_FULL, t |-> t]
    ELSE IF i >= t.neq THEN [err |-> ERR_ROW, t |-> t]
    ELSE IF j >= t.neq THEN [err |-> ERR_COL, t |-> t]
    ELSE [err |-> OK, t |-> put_store(t, i, j, aij)]

\* put, checking the column index only after the triple is stored
put_col_check_late(t, i, j, aij) ==
    IF i >= t.neq THEN [err |-> ERR_ROW, t |-> t]
    ELSE IF t.pos >= t.max THEN [err |-> ERR_FULL, t |-> t]
    ELSE IF j >= t.neq THEN [err |-> ERR_COL, t |-> put_store(t, i, j, aij)]
    ELSE [err |-> OK, t |-> put_store(t, i, j, aij)]

\* put, adding the value to an earlier triple of the same (i, j) if there is one
put_merging(t, i, j, aij) ==
    LET same == {p \in 0 .. t.pos - 1 : t.indices_i[p] = i /\ t.indices_j[p] = j}
    IN  IF i >= t.neq THEN [err |-> ERR_ROW, t |-> t]
        ELSE IF j >= t.neq THEN [err |-> ERR_COL, t |-> t]
        ELSE IF same # {}
        THEN [err |-> OK,
              t |-> [t EXCEPT !.values_aij[CHOOSE p \in same : TRUE] = @ + aij]]
        ELSE IF t.pos >= t.max THEN [err |-> ERR_FULL, t |-> t]
        ELSE [err |-> OK, t |-> put_store(t, i, j, aij)]

\* put, accepting one triple more than the capacity (the last slot is reused)
put_one_too_many(t, i, j, aij) ==
    IF i >= t.neq THEN [err |-> ERR_ROW, t |-> t]
    ELSE IF j >= t.neq THEN [err |-> ERR_COL, t |-> t]
    ELSE IF t.pos > t.max THEN [err |-> ERR_FULL, t |-> t]
    ELSE [err |-> OK,
          t |-> [t EXCEPT !.indices_i[IF t.pos < t.max THEN t.pos ELSE t.max - 1] = to_i32(i),
                          !.indices_j[IF t.pos < t.max THEN t.pos ELSE t.max - 1] = to_i32(j),
                          !.values_aij[IF t.pos < t.max THEN t.pos ELSE t.max - 1] = aij,
                          !.pos = t.pos + 1]]

\* put, accepting a row or column index equal to neq
put_index_inclusive(t, i, j, aij) ==
    IF i > t.neq THEN [err |-> ERR_ROW, t |-> t]
    ELSE IF j > t.neq THEN [err |-> ERR_COL, t |-> t]
    ELSE IF t.pos >= t.max THEN [err |-> ERR_FULL, t |-> t]
    ELSE [err |-> OK, t |-> put_store(t, i, j, aij)]

\* SparseTriplet::put
put(t, i, j, aij) ==
    IF i >= t.neq THEN [err |-> ERR_ROW, t |-> t]
    ELSE IF j >= t.neq THEN [err |-> ERR_COL, t |-> t]
    ELSE IF t.pos >= t.max THEN [err |-> ERR_FULL, t |-> t]
    ELSE IF to_i32(i) = I32_PANIC \/ to_i32(j) = I32_PANIC THEN [err |-> PANIC, t |-> t]
    ELSE [err |-> OK, t |-> put_store(t, i, j, aij)]

\* SparseTriplet::neq
neq(t) == t.neq

\* SparseTriplet::nnz_current
nnz_current(t) == t.pos

\* SparseTriplet::nnz_maximum
nnz_maximum(t) == t.max

\* reset, leaving the position where it is
reset_keeps_pos(t) == t

\* SparseTriplet::reset
reset(t) == [t EXCEPT !.pos = 0]

\* the loop of to_matrix, comparing the row index with the number of columns
\* and the column index with the number of rows
RECURSIVE to_matrix_loop_swapped(_, _, _, _, _)
to_matrix_loop_swapped(t, m_i32, n_i32, a, p) ==
    IF p >= t.pos THEN a
    ELSE IF t.indices_i[p] < n_i32 /\ t.indices_j[p] < m_i32
         THEN to_matrix_loop_swapped(t, m_i32, n_i32,
                                     add(a, as_usize(t.indices_i[p]), as_usize(t.indices_j[p]),
                                         t.values_aij[p]),
                                     p + 1)
         ELSE to_matrix_loop_swapped(t, m_i32, n_i32, a, p + 1)

\* the loop of to_matrix, adding an off-diagonal value at the transposed
\* position too where that lies in the window
RECURSIVE to_matrix_loop_mirroring(_, _, _, _, _)
to_matrix_loop_mirroring(t, m_i32, n_i32, a, p) ==
    IF p >= t.pos THEN a
    ELSE LET i == as_usize(t.indices_i[p])
             j == as_usize(t.indices_j[p])
             a1 == IF t.indices_i[p] < m_i32 /\ t.indices_j[p] < n_i32
                   THEN add(a, i, j, t.values_aij[p])
                   ELSE a
             a2 == IF i # j /\ t.indices_j[p] < m_i32 /\ t.indices_i[p] < n_i32
                   THEN add(a1, j, i, t.values_aij[p])
                   ELSE a1
         IN  to_matrix_loop_mirroring(t, m_i32, n_i32, a2, p + 1)

\* the loop of to_matrix, setting the target's entry to the value of the triple
RECURSIVE to_matrix_loop_overwriting(_, _, _, _, _)
to_matrix_loop_overwriting(t, m_i32, n_i32, a, p) ==
    IF p >= t.pos THEN a
    ELSE IF t.indices_i[p] < m_i32 /\ t.indices_j[p] < n_i32
         THEN to_matrix_loop_overwriting(t, m_i32, n_i32,
                  [a EXCEPT !.data[<<as_usize(t.indices_i[p]), as_usize(t.indices_j[p])>>] =
                                t.values_aij[p]],
                  p + 1)
         ELSE to_matrix_loop_overwriting(t, m_i32, n_i32, a, p + 1)

\* the loop of SparseTriplet::to_matrix, from position p on
RECURSIVE to_matrix_loop(_, _, _, _, _)
to_matrix_loop(t, m_i32, n_i32, a, p) ==
    IF p >= t.pos THEN a
    ELSE IF t.indices_i[p] < m_i32 /\ t.indices_j[p] < n_i32
         THEN to_matrix_loop(t, m_i32, n_i32,
                             add(a, as_usize(t.indices_i[p]), as_usize(t.indices_j[p]),
                                 t.values_aij[p]),
                             p + 1)
         ELSE to_matrix_loop(t, m_i32, n_i32, a, p + 1)

\* the calls a.add(i, j, value) the loop of SparseTriplet::to_matrix makes from
\* position p on, in the order it makes them
RECURSIVE to_matrix_adds(_, _, _, _)
to_matrix_adds(t, m_i32, n_i32, p) ==
    IF p >= t.pos THEN <<>>
    ELSE IF t.indices_i[p] < m_i32 /\ t.indices_j[p] < n_i32
         THEN << <<as_usize(t.indices_i[p]), as_usize(t.indices_j[p]), t.values_aij[p]>> >>
                  \o to_matrix_adds(t, m_i32, n_i32, p + 1)
         ELSE to_matrix_adds(t, m_i32, n_i32, p + 1)

\* to_matrix, adding into the target without filling it with zero first
to_matrix_no_fill(t, a) ==
    LET m == dims(a)[1]
        n == dims(a)[2]
    IN  IF m > t.neq \/ n > t.neq
        THEN [err |-> ERR_DIMS, a |-> a]
        ELSE [err |-> OK, a |-> to_matrix_loop(t, to_i32(m), to_i32(n), a, 0)]

\* to_matrix, refusing a target as large as the store as well
to_matrix_refusing_full(t, a) ==
    LET m == dims(a)[1]
        n == dims(a)[2]
    IN  IF m >= t.neq \/ n >= t.neq
        THEN [err |-> ERR_DIMS, a |-> a]
        ELSE [err |-> OK, a |-> to_matrix_loop(t, to_i32(m), to_i32(n), fill(a, 0), 0)]

\* to_matrix, filling the target with zero before looking at its size
to_matrix_fill_first(t, a) ==
    LET m == dims(a)[1]
        n == dims(a)[2]
    IN  IF m > t.neq \/ n > t.neq
        THEN [err |-> ERR_DIMS, a |-> fill(a, 0)]
        ELSE [err |-> OK, a |-> to_matrix_loop(t, to_i32(m), to_i32(n), fill(a, 0), 0)]

\* SparseTriplet::to_matrix
to_matrix(t, a) ==
    LET m == dims(a)[1]
        n == dims(a)[2]
    IN  IF m > t.neq \/ n > t.neq
        THEN [err |-> ERR_DIMS, a |-> a]
        ELSE IF to_i32(m) = I32_PANIC \/ to_i32(n) = I32_PANIC
        THEN [err |-> PANIC, a |-> a]
        ELSE [err |-> OK, a |-> to_matrix_loop(t, to_i32(m), to_i32(n), fill(a, 0), 0)]

\* SparseTriplet::as_matrix
as_matrix(t) == to_matrix(t, Matrix_new(t.neq, t.neq)).a

\* the loop of mat_vec_mul, mirroring the diagonal triples as well
RECURSIVE mat_vec_mul_loop_mirroring_diagonal(_, _, _, _, _)
mat_vec_mul_loop_mirroring_diagonal(t, u, triangular, v, p) ==
    IF p >= t.pos THEN v
    ELSE LET i == as_usize(t.indices_i[p])
             j == as_usize(t.indices_j[p])
             aij == t.values_aij[p]
             v1 == [v EXCEPT ![i] = @ + aij * u[j]]
             v2 == IF triangular
                   THEN [v1 EXCEPT ![j] = @ + aij * u[i]]
                   ELSE v1
         IN  mat_vec_mul_loop_mirroring_diagonal(t, u, triangular, v2, p + 1)

\* the loop of mat_vec_mul, ignoring triangular
RECURSIVE mat_vec_mul_loop_never_mirroring(_, _, _, _, _)
mat_vec_mul_loop_never_mirroring(t, u, triangular, v, p) ==
    IF p >= t.pos THEN v
    ELSE LET i == as_usize(t.indices_i[p])
             j == as_usize(t.indices_j[p])
             aij == t.values_aij[p]
         IN  mat_vec_mul_loop_never_mirroring(t, u, triangular,
                                              [v EXCEPT ![i] = @ + aij * u[j]], p + 1)

\* the loop of SparseTriplet::mat_vec_mul, from position p on
RECURSIVE mat_vec_mul_loop(_, _, _, _, _)
mat_vec_mul_loop(t, u, triangular, v, p) ==
    IF p >= t.pos THEN v
    ELSE LET i == as_usize(t.indices_i[p])
             j == as_usize(t.indices_j[p])
             aij == t.values_aij[p]
             v1 == [v EXCEPT ![i] = @ + aij * u[j]]
             v2 == IF triangular /\ i # j
                   THEN [v1 EXCEPT ![j] = @ + aij * u[i]]
                   ELSE v1
         IN  mat_vec_mul_loop(t, u, triangular, v2, p + 1)

\* the additions v[k] += term the loop of SparseTriplet::mat_vec_mul makes from
\* position p on, as pairs (k, term) in the order it makes them
RECURSIVE mat_vec_mul_adds(_, _, _, _)
mat_vec_mul_adds(t, u, triangular, p) ==
    IF p >= t.pos THEN <<>>
    ELSE LET i == as_usize(t.indices_i[p])
             j == as_usize(t.indices_j[p])
             aij == t.values_aij[p]
         IN  << <<i, aij * u[j]>> >>
                 \o (IF triangular /\ i # j THEN << <<j, aij * u[i]>> >> ELSE <<>>)
                 \o mat_vec_mul_adds(t, u, triangular, p + 1)

\* mat_vec_mul, refusing only a vector that is too short
mat_vec_mul_accepting_longer(t, u, triangular) ==
    IF dim(u) < t.neq
    THEN [err |-> ERR_U, v |-> Vector_new(0)]
    ELSE [err |-> OK, v |-> mat_vec_mul_loop(t, u, triangular, Vector_new(t.neq), 0)]

\* SparseTriplet::mat_vec_mul
mat_vec_mul(t, u, triangular) ==
    IF dim(u) # t.neq
    THEN [err |-> ERR_U, v |-> Vector_new(0)]
    ELSE [err |-> OK, v |-> mat_vec_mul_loop(t, u, triangular, Vector_new(t.neq), 0)]

----------------------------------------------------------------------------
(* VerifyLinSys *)

\* the computation of VerifyLinSys::new once the dimensions are accepted, with
\* the right-hand side scaled by alpha (the source has -1) and the divisor
\* max_abs_a + plus (the source has 1); time_check, a duration, is left out
verify_compute(t, x, rhs, triangular, alpha, plus) ==
    LET nnz == to_i32(t.pos)
        idx == idamax(nnz, t.values_aij)
        max_abs_a == abs(t.values_aij[as_usize(idx)])
        mv == mat_vec_mul(t, x, triangular)
        max_abs_ax == norm_max(mv.v)
        upd == update_vector(mv.v, alpha, rhs)
        max_abs_diff == norm_max(upd.v)
        relative_error == div(max_abs_diff, max_abs_a + plus)
    IN  IF mv.err # OK THEN [err |-> mv.err, out |-> {}]
        ELSE IF upd.err # OK THEN [err |-> upd.err, out |-> {}]
        ELSE [err |-> OK,
              out |-> {[max_abs_a |-> max_abs_a,
                        max_abs_ax |-> max_abs_ax,
                        max_abs_diff |-> max_abs_diff,
                        relative_error |-> relative_error]}]

\* VerifyLinSys::new, refusing only if both vectors have a wrong length
VerifyLinSys_new_requiring_both(t, x, rhs, triangular) ==
    IF dim(x) # t.neq /\ dim(rhs) # t.neq
    THEN [err |-> ERR_VERIFY, out |-> {}]
    ELSE verify_compute(t, x, rhs, triangular, 0 - 1, 1)

\* VerifyLinSys::new, adding the right-hand side to the product
VerifyLinSys_new_adding_rhs(t, x, rhs, triangular) ==
    IF dim(x) # t.neq \/ dim(rhs) # t.neq
    THEN [err |-> ERR_VERIFY, out |-> {}]
    ELSE verify_compute(t, x, rhs, triangular, 1, 1)

\* VerifyLinSys::new, dividing by max_abs_a alone
VerifyLinSys_new_without_plus_one(t, x, rhs, triangular) ==
    IF dim(x) # t.neq \/ dim(rhs) # t.neq
    THEN [err |-> ERR_VERIFY, out |-> {}]
    ELSE verify_compute(t, x, rhs, triangular, 0 - 1, 0)

\* VerifyLinSys::new. The store has one dimension, neq, for the rows and the
\* columns the source names nrow and ncol; triangular is the mode its caller
\* gives and mat_vec_mul takes. The result, if any, is the one member of out.
VerifyLinSys_new(t, x, rhs, triangular) ==
    IF dim(x) # t.neq \/ dim(rhs) # t.neq
    THEN [err |-> ERR_VERIFY, out |-> {}]
    ELSE verify_compute(t, x, rhs, triangular, 0 - 1, 1)

----------------------------------------------------------------------------
(* russell_lab: mat_eigen_sym, mat_norm and the dense products *)

\* the largest number of rows or columns of a dense matrix
MaxDim == 2

ERR_SQUARE == "matrix must be square"
\* the source writes the sign for "greater than or equal" in this message
ERR_DIM_ZERO == "matrix dimension must be >= 1"
ERR_L == "l vector has incompatible dimension"

\* the place of the diagonal entry i among the diagonal entries of a in
\* ascending order, equal entries in the order of their rows
rank(a, i) ==
    Cardinality({j \in 0 .. a.nrow - 1 :
                    \/ a.data[<<j, j>>] < a.data[<<i, i>>]
                    \/ (a.data[<<j, j>>] = a.data[<<i, i>>] /\ j < i)})

\* russell_openblas::dsyev(true, true, n, a, l) for a diagonal matrix a: the
\* eigenvalues, ascending, go to l and the eigenvectors, unit vectors, to the
\* columns of a
dsyev(n_i32, a, l) ==
    [err |-> OK,
     l |-> [k \in 0 .. n_i32 - 1 |->
              a.data[<<CHOOSE i \in 0 .. n_i32 - 1 : rank(a, i) = k,
                       CHOOSE i \in 0 .. n_i32 - 1 : rank(a, i) = k>>]],
     a |-> [a EXCEPT !.data = [c \in DOMAIN a.data |->
                                  IF rank(a, c[1]) = c[2] THEN 1 ELSE 0]]]

\* mat_eigen_sym, looking at the dimension before the shape
mat_eigen_sym_dimension_first(l, a) ==
    LET m == dims(a)[1]
        n == dims(a)[2]
    IN  IF m = 0 THEN [err |-> ERR_DIM_ZERO, l |-> l, a |-> a, calls |-> <<>>]
        ELSE IF m # n THEN [err |-> ERR_SQUARE, l |-> l, a |-> a, calls |-> <<>>]
        ELSE IF dim(l) # n THEN [err |-> ERR_L, l |-> l, a |-> a, calls |-> <<>>]
        ELSE LET k == dsyev(to_i32(n), a, l)
             IN  [err |-> k.err, l |-> k.l, a |-> k.a,
                  calls |-> <<[kernel |-> "dsyev", n |-> to_i32(n)]>>]

\* mat_eigen_sym(&mut l, &mut a); calls lists the calls of the kernel
mat_eigen_sym(l, a) ==
    LET m == dims(a)[1]
        n == dims(a)[2]
    IN  IF m # n THEN [err |-> ERR_SQUARE, l |-> l, a |-> a, calls |-> <<>>]
        ELSE IF m = 0 THEN [err |-> ERR_DIM_ZERO, l |-> l, a |-> a, calls |-> <<>>]
        ELSE IF dim(l) # n THEN [err |-> ERR_L, l |-> l, a |-> a, calls |-> <<>>]
        ELSE LET k == dsyev(to_i32(n), a, l)
             IN  [err |-> k.err, l |-> k.l, a |-> k.a,
                  calls |-> <<[kernel |-> "dsyev", n |-> to_i32(n)]>>]

\* the sum of f[x] over the members x of the finite set S
RECURSIVE sum_over(_, _)
sum_over(S, f) ==
    IF S = {} THEN 0
    ELSE LET x == CHOOSE y \in S : TRUE
         IN  f[x] + sum_over(S \ {x}, f)

\* the largest of f[x] over the members x of the finite set S, zero if none
largest_over(S, f) ==
    IF S = {} THEN 0
    ELSE f[CHOOSE y \in S : \A z \in S : f[z] <= f[y]]

\* russell_openblas::dlange(norm, m, n, data): the norm the selector names,
\* given by its square since the Frobenius norm is a square root; zero if the
\* matrix has no row or no column
dlange(norm, m_i32, n_i32, a) ==
    LET rows == 0 .. m_i32 - 1
        cols == 0 .. n_i32 - 1
        entry == [c \in rows \X cols |-> abs(a.data[c])]
        square == [c \in rows \X cols |-> a.data[c] * a.data[c]]
        colsum == [j \in cols |-> sum_over(rows, [i \in rows |-> entry[<<i, j>>]])]
        rowsum == [i \in rows |-> sum_over(cols, [j \in cols |-> entry[<<i, j>>]])]
        root == CASE norm = "1" -> largest_over(cols, colsum)
                  [] norm = "I" -> largest_over(rows, rowsum)
                  [] norm = "M" -> largest_over(rows \X cols, entry)
                  [] OTHER -> 0
    IN  IF m_i32 = 0 \/ n_i32 = 0 THEN 0
        ELSE IF norm = "F" THEN sum_over(rows \X cols, square)
        ELSE root * root

\* mat_norm, returning early only if the matrix has neither rows nor columns
mat_norm_needing_both_zero(a, kind) ==
    LET m == dims(a)[1]
        n == dims(a)[2]
        norm == CASE kind \in {"Euc", "Fro"} -> "F"
                  [] kind = "Inf" -> "I"
                  [] kind = "Max" -> "M"
                  [] kind = "One" -> "1"
    IN  IF m = 0 /\ n = 0
        THEN [squared |-> 0, calls |-> <<>>]
        ELSE [squared |-> dlange(norm, to_i32(m), to_i32(n), a),
              calls |-> <<[kernel |-> "dlange", norm |-> norm,
                           m |-> to_i32(m), n |-> to_i32(n)]>>]

\* mat_norm(&a, kind): squared is the square of the number returned, calls
\* lists the calls of the kernel
mat_norm(a, kind) ==
    LET m == dims(a)[1]
        n == dims(a)[2]
        norm == CASE kind \in {"Euc", "Fro"} -> "F"
                  [] kind = "Inf" -> "I"
                  [] kind = "Max" -> "M"
                  [] kind = "One" -> "1"
    IN  IF m = 0 \/ n = 0
        THEN [squared |-> 0, calls |-> <<>>]
        ELSE [squared |-> dlange(norm, to_i32(m), to_i32(n), a),
              calls |-> <<[kernel |-> "dlange", norm |-> norm,
                           m |-> to_i32(m), n |-> to_i32(n)]>>]

ERR_MAT_MAT == "matrices are incompatible"
ERR_MAT_VEC == "matrix and vectors are incompatible"

\* russell_lab::mat_mat_mul, adding the product to what c holds
mat_mat_mul_accumulating(c, alpha, a, b) ==
    IF a.nrow # c.nrow \/ b.ncol # c.ncol \/ a.ncol # b.nrow
    THEN [err |-> ERR_MAT_MAT, c |-> c]
    ELSE [err |-> OK,
          c |-> [c EXCEPT !.data = [x \in DOMAIN c.data |->
                    c.data[x] + alpha * sum_over(0 .. a.ncol - 1,
                        [k \in 0 .. a.ncol - 1 |->
                            a.data[<<x[1], k>>] * b.data[<<k, x[2]>>]])]]]

\* russell_lab::mat_mat_mul(&mut c, alpha, &a, &b): c := alpha * a * b
mat_mat_mul(c, alpha, a, b) ==
    IF a.nrow # c.nrow \/ b.ncol # c.ncol \/ a.ncol # b.nrow
    THEN [err |-> ERR_MAT_MAT, c |-> c]
    ELSE [err |-> OK,
          c |-> [c EXCEPT !.data = [x \in DOMAIN c.data |->
                    alpha * sum_over(0 .. a.ncol - 1,
                        [k \in 0 .. a.ncol - 1 |->
                            a.data[<<x[1], k>>] * b.data[<<k, x[2]>>]])]]]

\* russell_lab::mat_vec_mul, adding the product to what v holds
lab_mat_vec_mul_accumulating(v, alpha, a, u) ==
    IF dim(v) # a.nrow \/ dim(u) # a.ncol
    THEN [err |-> ERR_MAT_VEC, v |-> v]
    ELSE [err |-> OK,
          v |-> [i \in DOMAIN v |->
                    v[i] + alpha * sum_over(0 .. a.ncol - 1,
                        [j \in 0 .. a.ncol - 1 |-> a.data[<<i, j>>] * u[j]])]]

\* russell_lab::mat_vec_mul(&mut v, alpha, &a, &u): v := alpha * a * u
lab_mat_vec_mul(v, alpha, a, u) ==
    IF dim(v) # a.nrow \/ dim(u) # a.ncol
    THEN [err |-> ERR_MAT_VEC, v |-> v]
    ELSE [err |-> OK,
          v |-> [i \in DOMAIN v |->
                    alpha * sum_over(0 .. a.ncol - 1,
                        [j \in 0 .. a.ncol - 1 |-> a.data[<<i, j>>] * u[j]])]]

----------------------------------------------------------------------------
(* The state *)

VARIABLES
    trip,       \* the SparseTriplet under test
    fresh,      \* a second SparseTriplet, re-created by new where trip is reset
    ret,        \* the last call on trip: its arguments and what it returned
    ret_fresh,  \* what the same call returned on fresh
    n_put,      \* the calls of put with in-bounds indices since trip was created
                \* or last reset, counted up to max + 1
    put_log     \* the triples of the successful calls of put since trip was
                \* created or last reset, in the order of the calls

vars == <<trip, fresh, ret, ret_fresh, n_put, put_log>>

Init ==
    \E s \in Sizes :
        /\ new(s[1], s[2]).err = OK
        /\ trip = new(s[1], s[2]).t
        /\ fresh = new(s[1], s[2]).t
        /\ ret = [op |-> "new", neq |-> s[1], max |-> s[2], err |-> OK]
        /\ ret_fresh = ret
        /\ n_put = 0
        /\ put_log = <<>>

\* let trip = SparseTriplet::new(n, mx): on failure no new store exists
New ==
    \E s \in Sizes :
        LET r == new(s[1], s[2])
        IN  /\ trip' = IF r.err = OK THEN r.t ELSE trip
            /\ fresh' = IF r.err = OK THEN r.t ELSE fresh
            /\ ret' = [op |-> "new", neq |-> s[1], max |-> s[2], err |-> r.err]
            /\ ret_fresh' = ret'
            /\ n_put' = IF r.err = OK THEN 0 ELSE n_put
            /\ put_log' = IF r.err = OK THEN <<>> ELSE put_log

\* trip.put(i, j, aij), and the same call on fresh
Put ==
    \E i \in 0 .. trip.neq, j \in 0 .. trip.neq, aij \in Values :
        LET r == put(trip, i, j, aij)
            rf == put(fresh, i, j, aij)
        IN  /\ trip' = r.t
            /\ fresh' = rf.t
            /\ ret' = [op |-> "put", i |-> i, j |-> j, aij |-> aij, err |-> r.err]
            /\ ret_fresh' = [op |-> "put", i |-> i, j |-> j, aij |-> aij, err |-> rf.err]
            /\ n_put' = IF i < trip.neq /\ j < trip.neq /\ n_put <= trip.max
                         THEN n_put + 1
                         ELSE n_put
            /\ put_log' = IF r.err = OK THEN Append(put_log, <<i, j, aij>>) ELSE put_log

\* trip.reset(); fresh becomes a newly created store of the same size
Reset ==
    /\ trip' = reset(trip)
    /\ fresh' = new(neq(trip), nnz_maximum(trip)).t
    /\ ret' = [op |-> "reset", err |-> OK]
    /\ ret_fresh' = ret'
    /\ n_put' = 0
    /\ put_log' = <<>>

\* trip.neq(), trip.nnz_current() and trip.nnz_maximum()
Accessors ==
    /\ ret' = [op |-> "accessors", neq |-> neq(trip), nnz_current |-> nnz_current(trip),
                nnz_maximum |-> nnz_maximum(trip), err |-> OK]
    /\ ret_fresh' = [op |-> "accessors", neq |-> neq(fresh),
                      nnz_current |-> nnz_current(fresh),
                      nnz_maximum |-> nnz_maximum(fresh), err |-> OK]
    /\ UNCHANGED <<trip, fresh, n_put, put_log>>

\* to_matrix, emptying the store it has read
ToMatrix_clearing ==
    \E m \in 0 .. trip.neq + 1, n \in 0 .. trip.neq + 1, g \in TargetFill :
        LET a0 == Matrix_filled(m, n, g)
            r == to_matrix(trip, a0)
            rf == to_matrix(fresh, a0)
        IN  /\ ret' = [op |-> "to_matrix", a0 |-> a0, a |-> r.a, err |-> r.err]
            /\ ret_fresh' = [op |-> "to_matrix", a0 |-> a0, a |-> rf.a, err |-> rf.err]
            /\ trip' = reset(trip)
            /\ UNCHANGED <<fresh, n_put, put_log>>

\* trip.to_matrix(&mut a) for a target a of any size and content
ToMatrix ==
    \E m \in 0 .. trip.neq + 1, n \in 0 .. trip.neq + 1, g \in TargetFill :
        LET a0 == Matrix_filled(m, n, g)
            r == to_matrix(trip, a0)
            rf == to_matrix(fresh, a0)
        IN  /\ ret' = [op |-> "to_matrix", a0 |-> a0, a |-> r.a, err |-> r.err]
            /\ ret_fresh' = [op |-> "to_matrix", a0 |-> a0, a |-> rf.a, err |-> rf.err]
            /\ UNCHANGED <<trip, fresh, n_put, put_log>>

\* trip.mat_vec_mul(&u, triangular) for a vector u of any length
MatVecMul ==
    \E u \in Vectors(trip.neq), triangular \in BOOLEAN :
        LET r == mat_vec_mul(trip, u, triangular)
            rf == mat_vec_mul(fresh, u, triangular)
        IN  /\ ret' = [op |-> "mat_vec_mul", u |-> u, triangular |-> triangular,
                        v |-> r.v, err |-> r.err]
            /\ ret_fresh' = [op |-> "mat_vec_mul", u |-> u, triangular |-> triangular,
                              v |-> rf.v, err |-> rf.err]
            /\ UNCHANGED <<trip, fresh, n_put, put_log>>

\* VerifyLinSys::new(&trip, &x, &rhs, triangular) for vectors of any length
Verify ==
    \E args \in VerifyArgs(trip.neq) :
        LET r == VerifyLinSys_new(trip, args[1], args[2], args[3])
            rf == VerifyLinSys_new(fresh, args[1], args[2], args[3])
        IN  /\ ret' = [op |-> "verify", x |-> args[1], rhs |-> args[2],
                        triangular |-> args[3], out |-> r.out, err |-> r.err]
            /\ ret_fresh' = [op |-> "verify", x |-> args[1], rhs |-> args[2],
                              triangular |-> args[3], out |-> rf.out, err |-> rf.err]
            /\ UNCHANGED <<trip, fresh, n_put, put_log>>

Next == New \/ Put \/ Reset \/ Accessors \/ ToMatrix \/ MatVecMul \/ Verify

Spec == Init /\ [][Next]_vars

----------------------------------------------------------------------------
(* The calls of russell_lab; ret holds the last call, the store stands by *)

\* the norm kinds
Norms == {"One", "Inf", "Euc", "Fro", "Max"}

\* the matrices given to mat_norm: of every size, holding 1 everywhere or 1
\* everywhere but for one -2
NormMatrices ==
    UNION {{Matrix_filled(m, n, 1)} \cup
           {[Matrix_filled(m, n, 1) EXCEPT !.data[c] = 0 - 2] : c \in Cells(m, n)} :
               m \in 0 .. MaxDim, n \in 0 .. MaxDim}

\* the matrices given to mat_eigen_sym: zero matrices of every size, and the
\* diagonal matrices with diagonal entries in Values
EigenMatrices ==
    {Matrix_new(m, n) : m \in 0 .. MaxDim, n \in 0 .. MaxDim} \cup
    UNION {{[Matrix_new(n, n) EXCEPT !.data = [c \in Cells(n, n) |->
                                         IF c[1] = c[2] THEN d[c[1]] ELSE 0]] :
                d \in [0 .. n - 1 -> Values]} : n \in 1 .. MaxDim}

InitLab ==
    /\ trip = new(1, 1).t
    /\ fresh = new(1, 1).t
    /\ ret = [op |-> "none"]
    /\ ret_fresh = [op |-> "none"]
    /\ n_put = 0
    /\ put_log = <<>>

\* mat_eigen_sym(&mut l, &mut a) for an l of any length
MatEigenSym ==
    \E a0 \in EigenMatrices, k \in 0 .. MaxDim :
        LET l0 == Vector_filled(k, 7)
            r == mat_eigen_sym(l0, a0)
        IN  /\ ret' = [op |-> "mat_eigen_sym", a0 |-> a0, l0 |-> l0,
                        a |-> r.a, l |-> r.l, err |-> r.err, calls |-> r.calls]
            /\ UNCHANGED <<trip, fresh, ret_fresh, n_put, put_log>>

\* mat_norm(&a, kind)
MatNorm ==
    \E a \in NormMatrices, kind \in Norms :
        LET r == mat_norm(a, kind)
        IN  /\ ret' = [op |-> "mat_norm", a |-> a, kind |-> kind,
                        squared |-> r.squared, calls |-> r.calls]
            /\ UNCHANGED <<trip, fresh, ret_fresh, n_put, put_log>>

\* the body of the loops of test_mat_mat_mul: c is the c of the call before
\* if that was m x n, or an m x n matrix newly made
TestMatMatMul ==
    \E m \in 0 .. MaxDim, n \in 0 .. MaxDim, k \in 0 .. MaxDim :
        LET c0 == IF ret.op = "mat_mat_mul" /\ ret.err = OK /\ dims(ret.c) = <<m, n>>
                  THEN ret.c
                  ELSE Matrix_new(m, n)
            a == Matrix_filled(m, k, 1)
            b == Matrix_filled(k, n, 1)
            r == mat_mat_mul(c0, 1, a, b)
        IN  /\ ret' = [op |-> "mat_mat_mul", c0 |-> c0, k |-> k, c |-> r.c, err |-> r.err]
            /\ UNCHANGED <<trip, fresh, ret_fresh, n_put, put_log>>

\* the body of the loops of test_mat_vec_mul
TestMatVecMul ==
    \E m \in 0 .. MaxDim, n \in 0 .. MaxDim :
        LET a == Matrix_filled(m, n, 1)
            u == Vector_filled(n, 1)
            v0 == Vector_new(m)
            r == lab_mat_vec_mul(v0, 1, a, u)
        IN  /\ ret' = [op |-> "lab_mat_vec_mul", m |-> m, n |-> n, v |-> r.v, err |-> r.err]
            /\ UNCHANGED <<trip, fresh, ret_fresh, n_put, put_log>>

NextLab == MatEigenSym \/ MatNorm \/ TestMatMatMul \/ TestMatVecMul

SpecLab == InitLab /\ [][NextLab]_vars

----------------------------------------------------------------------------
(* Helpers of the properties *)

\* the call recorded in ret is a put with both indices in bounds
PutInBounds == ret.op = "put" /\ ret.i < trip.neq /\ ret.j < trip.neq

\* the positions among the first pos whose triple has the indices (i, j)
PositionsAt(t, i, j) ==
    {p \in 0 .. t.pos - 1 : t.indices_i[p] = i /\ t.indices_j[p] = j}

\* the sum of the values stored at the positions P
RECURSIVE SumValues(_, _)
SumValues(t, P) ==
    IF P = {} THEN 0
    ELSE LET p == CHOOSE q \in P : TRUE
         IN  t.values_aij[p] + SumValues(t, P \ {p})

\* the sum of the values of a function of finite domain
RECURSIVE SumOf(_)
SumOf(f) ==
    IF DOMAIN f = {} THEN 0
    ELSE LET p == CHOOSE q \in DOMAIN f : TRUE
         IN  f[p] + SumOf([q \in DOMAIN f \ {p} |-> f[q]])

\* component k of the product of the stored triples of t with u: a * u[j]
\* of every triple (k, j, a), and with triangular a * u[i] of every triple
\* (i, k, a) off the diagonal
Product(t, u, triangular, k) ==
    LET rowk == {p \in 0 .. t.pos - 1 : t.indices_i[p] = k}
        colk == {p \in 0 .. t.pos - 1 : t.indices_j[p] = k /\ t.indices_i[p] # k}
    IN  SumOf([p \in rowk |-> t.values_aij[p] * u[t.indices_j[p]]])
            + (IF triangular
               THEN SumOf([p \in colk |-> t.values_aij[p] * u[t.indices_i[p]]])
               ELSE 0)

\* t holds triples of one triangle only, the diagonal included
OneTriangle(t) ==
    \/ \A p \in 0 .. t.pos - 1 : t.indices_i[p] >= t.indices_j[p]
    \/ \A p \in 0 .. t.pos - 1 : t.indices_i[p] <= t.indices_j[p]

\* the store t after put of each triple of the sequence triples, in order
RECURSIVE PutAll(_, _)
PutAll(t, triples) ==
    IF triples = <<>> THEN t
    ELSE PutAll(put(t, triples[1][1], triples[1][2], triples[1][3]).t, Tail(triples))

\* the triples of t from position p on, each off-diagonal one followed by its
\* transposed triple
RECURSIVE WithTransposed(_, _)
WithTransposed(t, p) ==
    IF p >= t.pos THEN <<>>
    ELSE LET i == t.indices_i[p]
             j == t.indices_j[p]
             a == t.values_aij[p]
         IN  (IF i = j THEN <<(<<i, j, a>>)>> ELSE <<(<<i, j, a>>), (<<j, i, a>>)>>)
                 \o WithTransposed(t, p + 1)

\* a store holding both triangles of the symmetric matrix of which t holds one
BothTriangles(t) == PutAll(new(t.neq, 2 * t.max).t, WithTransposed(t, 0))

\* the lower triangle of [[2,-1,0],[-1,2,-1],[0,-1,2]], put as the test
\* mat_vec_mul_pos_def_works puts it
PosDefLower ==
    PutAll(new(3, 5).t,
           << <<0, 0, 2>>, <<1, 1, 2>>, <<2, 2, 2>>, <<1, 0, 0 - 1>>, <<2, 1, 0 - 1>> >>)

\* the matrix a after the calls add(i, j, value) of the sequence adds, in order
RECURSIVE AfterAdds(_, _)
AfterAdds(a, adds) ==
    IF adds = <<>> THEN a
    ELSE AfterAdds(add(a, adds[1][1], adds[1][2], adds[1][3]), Tail(adds))

\* the vector v after the additions v[k] += term of the sequence adds, in order
RECURSIVE AfterVectorAdds(_, _)
AfterVectorAdds(v, adds) ==
    IF adds = <<>> THEN v
    ELSE AfterVectorAdds([v EXCEPT ![adds[1][1]] = @ + adds[1][2]], Tail(adds))

\* the additions of a product that the triples of the sequence log call for,
\* in the order of the log
RECURSIVE ProductTerms(_, _, _)
ProductTerms(log, u, triangular) ==
    IF log = <<>> THEN <<>>
    ELSE LET i == log[1][1]
             j == log[1][2]
             a == log[1][3]
         IN  << <<i, a * u[j]>> >>
                 \o (IF triangular /\ i # j THEN << <<j, a * u[i]>> >> ELSE <<>>)
                 \o ProductTerms(Tail(log), u, triangular)

----------------------------------------------------------------------------
(* Properties *)

\* C1: counting from creation or from the last reset, each of the first max
\* calls of put with in-bounds indices succeeds (and the store then holds as
\* many triples as there were calls), and the call after them fails with the
\* error of a full store.
C1_PutUntilFull ==
    PutInBounds =>
        /\ n_put >= 1
        /\ n_put <= trip.max => ret.err = OK /\ nnz_current(trip) = n_put
        /\ n_put > trip.max => ret.err = ERR_FULL /\ nnz_current(trip) = trip.max

\* the call after the first max in-bounds calls has failed, on a store of capacity 2
C1_Witness ==
    /\ PutInBounds
    /\ trip.max = 2
    /\ n_put = trip.max + 1
    /\ ret.err = ERR_FULL

\* C2: a put whose row or column index is not below neq fails with an
\* index-out-of-bounds error, whatever the store holds, full or not.
C2_OutOfBoundsRejected ==
    (ret.op = "put" /\ (ret.i >= trip.neq \/ ret.j >= trip.neq)) =>
        /\ ret.err \in {ERR_ROW, ERR_COL}
        /\ ret.i >= trip.neq => ret.err = ERR_ROW
        /\ (ret.i < trip.neq /\ ret.j >= trip.neq) => ret.err = ERR_COL

\* put(0, neq, v) was rejected on a full store
C2_Witness ==
    /\ ret.op = "put"
    /\ ret.i = 0
    /\ ret.j = trip.neq
    /\ trip.pos = trip.max
    /\ ret.err = ERR_COL

\* C3: a put that fails leaves the whole store (sizes, position and backing
\* vectors) as it was.
C3_FailedPutLeavesStore ==
    [][(ret'.op = "put" /\ ret'.err # OK) => trip' = trip]_vars

\* a put has failed on a store that holds a triple and has room for more
C3_Witness ==
    /\ ret.op = "put"
    /\ ret.err = ERR_COL
    /\ trip.pos = 1
    /\ trip.max = 2

\* C4: a successful put on a store holding k triples stores its triple at
\* position k, makes the position k + 1 and leaves the sizes and every other
\* position of the backing vectors unchanged, so nothing is merged or replaced.
C4_PutAppends ==
    [][(ret'.op = "put" /\ ret'.err = OK) =>
          LET k == trip.pos
          IN  /\ trip'.pos = k + 1
              /\ trip'.indices_i[k] = ret'.i
              /\ trip'.indices_j[k] = ret'.j
              /\ trip'.values_aij[k] = ret'.aij
              /\ \A p \in (0 .. trip.max - 1) \ {k} :
                    /\ trip'.indices_i[p] = trip.indices_i[p]
                    /\ trip'.indices_j[p] = trip.indices_j[p]
                    /\ trip'.values_aij[p] = trip.values_aij[p]
              /\ trip'.neq = trip.neq
              /\ trip'.max = trip.max]_vars

\* the same (i, j) was put twice and is stored as two triples
C4_Witness ==
    /\ ret.op = "put"
    /\ ret.err = OK
    /\ trip.pos = 2
    /\ trip.indices_i[0] = trip.indices_i[1]
    /\ trip.indices_j[0] = trip.indices_j[1]
    /\ trip.values_aij[0] = 1
    /\ trip.values_aij[1] = 1

\* C5: new fails, with its one error, exactly when neq or max is zero;
\* otherwise the new store holds no triple and has the sizes given.
C5_NewChecksSizes ==
    ret.op = "new" =>
        /\ ret.err \in {OK, ERR_NEW}
        /\ ret.err = ERR_NEW <=> (ret.neq = 0 \/ ret.max = 0)
        /\ ret.err = OK =>
              /\ nnz_current(trip) = 0
              /\ neq(trip) = ret.neq
              /\ nnz_maximum(trip) = ret.max

\* new was refused for a zero capacity with a non-zero dimension
C5_Witness ==
    /\ ret.op = "new"
    /\ ret.neq > 0
    /\ ret.max = 0
    /\ ret.err = ERR_NEW

\* C6 as stated: the store always holds at least one triple and never more
\* than its capacity.
C6_CountPositive == 0 < trip.pos /\ trip.pos <= trip.max

\* C6, amended: the number of stored triples is between zero and the
\* capacity, both included.
C6_CountWithinCapacity == 0 <= trip.pos /\ trip.pos <= trip.max

\* a store that was full holds no triple after reset
C6_Witness ==
    /\ ret.op = "reset"
    /\ trip.pos = 0
    /\ trip.max = 2
    /\ trip.values_aij[1] # 0

\* C7: each of the first pos triples has a row index and a column index in
\* 0 .. neq - 1; so mat_vec_mul indexes its vectors of length neq inside them,
\* and to_matrix adds inside its target whenever a triple passes the window test.
C7_StoredIndicesInBounds ==
    \A p \in 0 .. trip.pos - 1 :
        /\ 0 <= trip.indices_i[p] /\ trip.indices_i[p] < trip.neq
        /\ 0 <= trip.indices_j[p] /\ trip.indices_j[p] < trip.neq
        /\ as_usize(trip.indices_i[p]) \in DOMAIN Vector_new(trip.neq)
        /\ as_usize(trip.indices_j[p]) \in DOMAIN Vector_new(trip.neq)
        /\ \A m \in 0 .. trip.neq, n \in 0 .. trip.neq :
              (trip.indices_i[p] < to_i32(m) /\ trip.indices_j[p] < to_i32(n)) =>
                  <<as_usize(trip.indices_i[p]), as_usize(trip.indices_j[p])>>
                      \in DOMAIN Matrix_new(m, n).data

\* a full store holds a triple with the largest row and column index
C7_Witness ==
    /\ trip.pos = trip.max
    /\ trip.neq = 2
    /\ \E p \in 0 .. trip.pos - 1 :
          trip.indices_i[p] = trip.neq - 1 /\ trip.indices_j[p] = trip.neq - 1

\* C8: reset returns no error and empties the store; from then on put,
\* to_matrix and mat_vec_mul return on the reset store what they return on a
\* newly created store of the same sizes, and the accessors agree, whatever
\* was stored before the reset.
C8_ResetLikeNew ==
    /\ ret.op \in {"new", "put", "reset", "accessors", "to_matrix", "mat_vec_mul"} =>
          ret_fresh = ret
    /\ neq(fresh) = neq(trip)
    /\ nnz_current(fresh) = nnz_current(trip)
    /\ nnz_maximum(fresh) = nnz_maximum(trip)
    /\ ret.op = "reset" => ret.err = OK /\ nnz_current(trip) = 0

\* a store reset while full, whose backing vectors still hold the old values,
\* has been given one triple and then materialized
C8_Witness ==
    /\ ret.op = "to_matrix"
    /\ ret.err = OK
    /\ trip.pos = 1
    /\ trip.max = 2
    /\ trip.values_aij[1] # 0
    /\ fresh.values_aij[1] = 0

\* C9: after a successful to_matrix the target keeps its dimensions and holds
\* at every (i, j) the sum of the values of the stored triples with exactly
\* these indices (zero where there is none), whatever it held before.
C9_ToMatrixSumsDuplicates ==
    (ret.op = "to_matrix" /\ ret.err = OK) =>
        /\ dims(ret.a) = dims(ret.a0)
        /\ DOMAIN ret.a.data = Cells(ret.a0.nrow, ret.a0.ncol)
        /\ \A c \in Cells(ret.a0.nrow, ret.a0.ncol) :
              get(ret.a, c[1], c[2]) = SumValues(trip, PositionsAt(trip, c[1], c[2]))

\* (0, 0, 1) was put twice and materialized as 2 into a target that held 7
C9_Witness ==
    /\ ret.op = "to_matrix"
    /\ ret.err = OK
    /\ ret.a0.nrow = 2
    /\ ret.a0.ncol = 2
    /\ ret.a0.data[<<0, 0>>] = 7
    /\ trip.pos = 2
    /\ PositionsAt(trip, 0, 0) = {0, 1}
    /\ trip.values_aij[0] = 1
    /\ trip.values_aij[1] = 1
    /\ ret.a.data[<<0, 0>>] = 2
    /\ ret.a.data[<<1, 1>>] = 0

\* C10: a successful to_matrix into an m x n target gives the leading m x n
\* block of the matrix as_matrix gives.
C10_WindowIsLeadingBlock ==
    (ret.op = "to_matrix" /\ ret.err = OK) =>
        \A c \in Cells(ret.a0.nrow, ret.a0.ncol) :
            get(ret.a, c[1], c[2]) = get(as_matrix(trip), c[1], c[2])

\* a 2 x 1 window was taken of a store holding a triple inside the window,
\* at (1, 0), and one outside it, at (0, 1)
C10_Witness ==
    /\ ret.op = "to_matrix"
    /\ ret.err = OK
    /\ ret.a0.nrow = 2
    /\ ret.a0.ncol = 1
    /\ trip.pos = 2
    /\ PositionsAt(trip, 1, 0) # {}
    /\ PositionsAt(trip, 0, 1) # {}
    /\ ret.a.data[<<1, 0>>] # 0
    /\ ret.a.data[<<0, 0>>] = 0

\* C11: to_matrix fails, with its one error, exactly when the target has more
\* rows or more columns than neq, and succeeds otherwise; the call as_matrix
\* makes, on a neq x neq target, succeeds.
C11_ToMatrixChecksDims ==
    /\ ret.op = "to_matrix" =>
          /\ ret.err \in {OK, ERR_DIMS}
          /\ ret.err = ERR_DIMS <=> (ret.a0.nrow > trip.neq \/ ret.a0.ncol > trip.neq)
    /\ to_matrix(trip, Matrix_new(neq(trip), neq(trip))).err = OK

\* a target of as many rows as neq but one column more was refused
C11_Witness ==
    /\ ret.op = "to_matrix"
    /\ ret.a0.nrow = trip.neq
    /\ ret.a0.ncol = trip.neq + 1
    /\ ret.err = ERR_DIMS

\* C12: after a successful to_matrix every target position (i, j) for which
\* no triple (i, j) is stored holds zero, also where a triple (j, i) is stored.
C12_ToMatrixNeverMirrors ==
    (ret.op = "to_matrix" /\ ret.err = OK) =>
        \A c \in Cells(ret.a0.nrow, ret.a0.ncol) :
            PositionsAt(trip, c[1], c[2]) = {} => get(ret.a, c[1], c[2]) = 0

\* a store holding only lower-triangle triples, (1, 0) among them, was
\* materialized in full: (1, 0) is not zero and (0, 1) is zero
C12_Witness ==
    /\ ret.op = "to_matrix"
    /\ ret.err = OK
    /\ ret.a0.nrow = 2
    /\ ret.a0.ncol = 2
    /\ trip.pos = 2
    /\ \A p \in 0 .. trip.pos - 1 : trip.indices_i[p] >= trip.indices_j[p]
    /\ PositionsAt(trip, 1, 0) # {}
    /\ ret.a.data[<<1, 0>>] # 0
    /\ ret.a.data[<<0, 1>>] = 0

\* C13: mat_vec_mul fails, with its one error, exactly when the length of u
\* differs from neq, whatever triangular is; otherwise it returns a vector of
\* length neq.
C13_MatVecMulChecksDim ==
    ret.op = "mat_vec_mul" =>
        /\ ret.err \in {OK, ERR_U}
        /\ ret.err = ERR_U <=> dim(ret.u) # trip.neq
        /\ ret.err = OK => dim(ret.v) = trip.neq

\* a vector one component too long was refused with triangular set
C13_Witness ==
    /\ ret.op = "mat_vec_mul"
    /\ ret.triangular
    /\ dim(ret.u) = trip.neq + 1
    /\ ret.err = ERR_U

\* C14: a successful mat_vec_mul returns the vector whose component k is the
\* sum of a * u[j] over the stored triples (k, j, a) plus, with triangular
\* only, the sum of a * u[i] over the stored triples (i, k, a) with i # k;
\* each stored triple counts once, and a diagonal triple is never mirrored.
C14_MatVecMulProduct ==
    (ret.op = "mat_vec_mul" /\ ret.err = OK) =>
        /\ DOMAIN ret.v = 0 .. trip.neq - 1
        /\ \A k \in 0 .. trip.neq - 1 :
              ret.v[k] = Product(trip, ret.u, ret.triangular, k)

\* a store holding the diagonal triple (1, 1) and the off-diagonal triple
\* (1, 0) was multiplied with triangular set
C14_Witness ==
    /\ ret.op = "mat_vec_mul"
    /\ ret.err = OK
    /\ ret.triangular
    /\ trip.pos = 2
    /\ PositionsAt(trip, 1, 1) # {}
    /\ PositionsAt(trip, 1, 0) # {}
    /\ ret.v[0] # 0

\* the products of the test mat_vec_mul_pos_def_works come out, from the lower
\* triangle with triangular and from both triangles without
PosDefExample ==
    LET u == [k \in 0 .. 2 |-> <<5, 8, 7>>[k + 1]]
        v == [k \in 0 .. 2 |-> <<2, 4, 6>>[k + 1]]
    IN  /\ mat_vec_mul(PosDefLower, u, TRUE) = [err |-> OK, v |-> v]
        /\ mat_vec_mul(BothTriangles(PosDefLower), u, FALSE) = [err |-> OK, v |-> v]

\* C15: the product, with triangular set, of a store holding one triangle
\* equals the product, with triangular not set, of the store holding both
\* triangles; the lower triangle of [[2,-1,0],[-1,2,-1],[0,-1,2]] times
\* [5,8,7] gives [2,4,6] either way.
C15_TriangleLikeBothTriangles ==
    /\ (ret.op = "mat_vec_mul" /\ ret.err = OK /\ ret.triangular /\ OneTriangle(trip)) =>
          ret.v = mat_vec_mul(BothTriangles(trip), ret.u, FALSE).v
    /\ PosDefExample

\* a store holding the strictly lower triple (1, 0) and a diagonal triple was
\* multiplied with triangular set, and the mirrored term reached component 0
C15_Witness ==
    /\ ret.op = "mat_vec_mul"
    /\ ret.err = OK
    /\ ret.triangular
    /\ OneTriangle(trip)
    /\ trip.pos = 2
    /\ PositionsAt(trip, 1, 0) # {}
    /\ PositionsAt(trip, 0, 0) # {}
    /\ BothTriangles(trip).pos = 3

\* C16: the store holds, at positions 0 .. pos - 1, the triples of the
\* successful puts since creation or the last reset in the order of the calls;
\* to_matrix and mat_vec_mul make their additions in that order (to_matrix
\* those of the triples inside the window), and the additions made in that
\* order give the output returned.
C16_ConsumedInPutOrder ==
    /\ Len(put_log) = trip.pos
    /\ \A p \in 0 .. trip.pos - 1 :
          put_log[p + 1] = <<trip.indices_i[p], trip.indices_j[p], trip.values_aij[p]>>
    /\ (ret.op = "to_matrix" /\ ret.err = OK) =>
          LET m == ret.a0.nrow
              n == ret.a0.ncol
              InWindow(x) == x[1] < m /\ x[2] < n
              adds == to_matrix_adds(trip, to_i32(m), to_i32(n), 0)
          IN  /\ adds = SelectSeq(put_log, InWindow)
              /\ ret.a = AfterAdds(Matrix_new(m, n), adds)
    /\ (ret.op = "mat_vec_mul" /\ ret.err = OK) =>
          LET adds == mat_vec_mul_adds(trip, ret.u, ret.triangular, 0)
          IN  /\ adds = ProductTerms(put_log, ret.u, ret.triangular)
              /\ ret.v = AfterVectorAdds(Vector_new(trip.neq), adds)

\* -2 and then 1 were put at (0, 0), and the store was materialized by adding
\* -2 and then 1 to the target's (0, 0)
C16_Witness ==
    /\ ret.op = "to_matrix"
    /\ ret.err = OK
    /\ ret.a0.nrow >= 1
    /\ ret.a0.ncol >= 1
    /\ put_log = << <<0, 0, 0 - 2>>, <<0, 0, 1>> >>
    /\ to_matrix_adds(trip, 1, 1, 0) = << <<0, 0, 0 - 2>>, <<0, 0, 1>> >>
    /\ ret.a.data[<<0, 0>>] = 0 - 1

----------------------------------------------------------------------------
(* Claims about VerifyLinSys *)

\* the largest member of a non-empty finite set of numbers
MaxOfSet(S) == CHOOSE m \in S : \A x \in S : x <= m

\* the store of the test new_works: [[1,3,-2],[3,5,6],[2,4,3]] put row by row
Example3x3 ==
    PutAll(new(3, 9).t,
           << <<0, 0, 1>>, <<0, 1, 3>>, <<0, 2, 0 - 2>>,
              <<1, 0, 3>>, <<1, 1, 5>>, <<1, 2, 6>>,
              <<2, 0, 2>>, <<2, 1, 4>>, <<2, 2, 3>> >>)

\* C17: VerifyLinSys::new fails with "vector dimensions are incompatible"
\* exactly when x or rhs has not the store's dimension; it fails in no other
\* way, a failure carries no result and a success carries exactly one.
C17_VerifyChecksDims ==
    ret.op = "verify" =>
        /\ ret.err = ERR_VERIFY <=> (dim(ret.x) # neq(trip) \/ dim(ret.rhs) # neq(trip))
        /\ ret.err \in {OK, ERR_VERIFY}
        /\ ret.err = ERR_VERIFY => ret.out = {}
        /\ ret.err = OK => Cardinality(ret.out) = 1

\* a verification was refused though x has the store's dimension, since rhs
\* has not
C17_Witness ==
    /\ ret.op = "verify"
    /\ ret.err = ERR_VERIFY
    /\ ret.out = {}
    /\ dim(ret.x) = neq(trip)
    /\ dim(ret.rhs) = neq(trip) + 1

\* the numbers of the test new_works come out
NewWorksExample ==
    LET x == [k \in 0 .. 2 |-> <<0 - 15, 8, 2>>[k + 1]]
        rhs == [k \in 0 .. 2 |-> <<5, 7, 8>>[k + 1]]
    IN  VerifyLinSys_new(Example3x3, x, rhs, FALSE) =
            [err |-> OK,
             out |-> {[max_abs_a |-> 6, max_abs_ax |-> 8, max_abs_diff |-> 0,
                       relative_error |-> div(0, 7)]}]

\* C18: a successful verification reports as max_abs_ax the largest |v[i]| and
\* as max_abs_diff the largest |v[i] - rhs[i]|, v being what mat_vec_mul
\* returns for x; where v = rhs it reports max_abs_diff = 0 and
\* relative_error = 0; [[1,3,-2],[3,5,6],[2,4,3]] with x = [-15,8,2] and
\* rhs = [5,7,8] gives max_abs_a = 6, max_abs_ax = 8 and no difference.
C18_VerifyMaxima ==
    /\ (ret.op = "verify" /\ ret.err = OK) =>
          LET v == mat_vec_mul(trip, ret.x, ret.triangular).v
              rows == 0 .. neq(trip) - 1
          IN  \A r \in ret.out :
                  /\ r.max_abs_ax = MaxOfSet({abs(v[i]) : i \in rows})
                  /\ r.max_abs_diff = MaxOfSet({abs(v[i] - ret.rhs[i]) : i \in rows})
                  /\ v = ret.rhs => (r.max_abs_diff = 0 /\ r.relative_error.num = 0)
    /\ NewWorksExample

\* the store holds 1 at (0, 0) and -2 at (1, 1), and [1, 1] was verified
\* against the right-hand side [1, -2], which it solves exactly
C18_Witness ==
    /\ ret.op = "verify"
    /\ ret.err = OK
    /\ neq(trip) = 2
    /\ ret.rhs = mat_vec_mul(trip, ret.x, ret.triangular).v
    /\ \E r \in ret.out : r.max_abs_ax = 2 /\ r.max_abs_diff = 0

\* C19: a successful verification reports relative_error = max_abs_diff /
\* (max_abs_a + 1); max_abs_a >= 0, so the divisor is >= 1, and
\* 0 <= relative_error <= max_abs_diff.
C19_RelativeError ==
    (ret.op = "verify" /\ ret.err = OK) =>
        \A r \in ret.out :
            LET e == r.relative_error
            IN  /\ e = div(r.max_abs_diff, r.max_abs_a + 1)
                /\ r.max_abs_a >= 0
                /\ e.den >= 1
                /\ e.num >= 0
                /\ e.num <= r.max_abs_diff * e.den

\* a store whose coefficients are all zero was verified, with a difference
C19_Witness ==
    /\ ret.op = "verify"
    /\ ret.err = OK
    /\ \A p \in DOMAIN trip.values_aij : trip.values_aij[p] = 0
    /\ \E r \in ret.out :
          /\ r.max_abs_a = 0
          /\ r.max_abs_diff > 0
          /\ r.relative_error = div(r.max_abs_diff, 1)

\* C20: a successful verification reports as max_abs_a the largest absolute
\* value of the triples at positions 0 .. pos - 1, each taken alone (1 put
\* twice at (0, 0) gives 1, not 2), and the values at positions >= pos have no
\* influence: a store created anew that received the same puts reports the
\* same max_abs_a.
C20_MaxAbsAOverStored ==
    /\ (ret.op = "verify" /\ ret.err = OK) =>
          \A r \in ret.out :
              /\ r.max_abs_a =
                     MaxOfSet({0} \cup {abs(trip.values_aij[p]) : p \in 0 .. trip.pos - 1})
              /\ \A rf \in ret_fresh.out : rf.max_abs_a = r.max_abs_a
    /\ LET twice == PutAll(new(1, 2).t, << <<0, 0, 1>>, <<0, 0, 1>> >>)
       IN  \A r \in VerifyLinSys_new(twice, [k \in {0} |-> 1], [k \in {0} |-> 1], FALSE).out :
               r.max_abs_a = 1

----------------------------------------------------------------------------
(* Claims about the calls as a whole *)

\* C21: a to_matrix that fails leaves every entry of the target as it was; a
\* mat_vec_mul that fails returns the error and no vector (the empty vector
\* stands for none), and a verification that fails returns the error and no
\* result.
C21_FailureLeavesOutput ==
    /\ (ret.op = "to_matrix" /\ ret.err # OK) => ret.a = ret.a0
    /\ (ret.op = "mat_vec_mul" /\ ret.err # OK) => ret.v = Vector_new(0)
    /\ (ret.op = "verify" /\ ret.err # OK) => ret.out = {}

\* a target filled with 7, one row too high, was refused and still holds 7
C21_Witness ==
    /\ ret.op = "to_matrix"
    /\ ret.err = ERR_DIMS
    /\ ret.a0.nrow = trip.neq + 1
    /\ ret.a0.ncol >= 1
    /\ ret.a.data[<<0, 0>>] = 7

----------------------------------------------------------------------------
(* Claims about russell_lab, under SpecLab *)

\* a matrix given row by row
FromRows(rows) ==
    [nrow |-> Len(rows), ncol |-> Len(rows[1]),
     data |-> [c \in Cells(Len(rows), Len(rows[1])) |-> rows[c[1] + 1][c[2] + 1]]]

\* C22: mat_eigen_sym returns "matrix must be square" if the numbers of rows
\* and columns differ, a zero among them or not; else "matrix dimension must
\* be >= 1" if they are zero; else "l vector has incompatible dimension" if
\* the length of l differs from them. A failing call calls no kernel and
\* leaves a and l as they were; the kernel is called, once, exactly when the
\* three tests pass.
C22_EigenChecksInOrder ==
    /\ ret.op = "mat_eigen_sym" =>
          LET m == ret.a0.nrow
              n == ret.a0.ncol
              k == dim(ret.l0)
          IN  /\ m # n => ret.err = ERR_SQUARE
              /\ (m = n /\ m = 0) => ret.err = ERR_DIM_ZERO
              /\ (m = n /\ m # 0 /\ k # n) => ret.err = ERR_L
              /\ ret.err # OK => (ret.calls = <<>> /\ ret.a = ret.a0 /\ ret.l = ret.l0)
              /\ ret.calls # <<>> <=> (m = n /\ m # 0 /\ k = n)
              /\ Len(ret.calls) <= 1
    /\ mat_eigen_sym(Vector_new(0), Matrix_new(0, 1)).err = ERR_SQUARE
    /\ mat_eigen_sym(Vector_new(0), Matrix_new(0, 0)).err = ERR_DIM_ZERO
    /\ mat_eigen_sym(Vector_new(0), Matrix_new(1, 1)).err = ERR_L

\* a matrix of no rows and one column was refused as not square, l having
\* the wrong length as well
C22_Witness ==
    /\ ret.op = "mat_eigen_sym"
    /\ ret.a0.nrow = 0
    /\ ret.a0.ncol = 1
    /\ dim(ret.l0) = 2
    /\ ret.err = ERR_SQUARE
    /\ ret.calls = <<>>

\* C23: mat_norm returns 0, without calling the kernel, for a matrix of no
\* rows or no columns and any kind; for any other matrix it calls the kernel
\* once, with the selector "1" for One, "I" for Inf, "M" for Max and "F" for
\* Euc and for Fro; the norms of the source's examples come out.
C23_NormSelectors ==
    /\ ret.op = "mat_norm" =>
          IF ret.a.nrow = 0 \/ ret.a.ncol = 0
          THEN ret.squared = 0 /\ ret.calls = <<>>
          ELSE /\ Len(ret.calls) = 1
               /\ ret.calls[1].kernel = "dlange"
               /\ ret.calls[1].norm \in {"1", "I", "F", "M"}
               /\ ret.kind = "One" => ret.calls[1].norm = "1"
               /\ ret.kind = "Inf" => ret.calls[1].norm = "I"
               /\ ret.kind = "Max" => ret.calls[1].norm = "M"
               /\ ret.kind \in {"Euc", "Fro"} => ret.calls[1].norm = "F"
    /\ LET a == FromRows(<< <<5, 0 - 4, 2>>, <<0 - 1, 2, 3>>, <<0 - 2, 1, 0>> >>)
       IN  /\ mat_norm(a, "One").squared = 8 * 8
           /\ mat_norm(a, "Inf").squared = 11 * 11
           /\ mat_norm(a, "Euc").squared = 8 * 8
           /\ mat_norm(a, "Fro").squared = 8 * 8
           /\ mat_norm(a, "Max").squared = 5 * 5

\* the Euc norm of a 2 x 2 matrix was asked for and the kernel was called
\* with "F"; a matrix of one row and no column had given 0 without a call
C23_Witness ==
    /\ ret.op = "mat_norm"
    /\ ret.kind = "Euc"
    /\ dims(ret.a) = <<2, 2>>
    /\ ret.squared = 7
    /\ ret.calls = <<[kernel |-> "dlange", norm |-> "F", m |-> 2, n |-> 2]>>
    /\ mat_norm(Matrix_filled(1, 0, 1), "Euc") = [squared |-> 0, calls |-> <<>>]

\* C24: mat_mat_mul(c, 1, a, b) for a (m x k) and b (k x n) holding only ones
\* succeeds and leaves k in every entry of c, whatever c held, so zero if
\* k = 0; mat_vec_mul(v, 1, a, u) for a (m x n) and u holding only ones
\* succeeds and leaves n in every entry of v; m, n or k may be zero.
C24_DenseProductsOverwrite ==
    /\ ret.op = "mat_mat_mul" =>
          /\ ret.err = OK
          /\ dims(ret.c) = dims(ret.c0)
          /\ \A x \in DOMAIN ret.c.data : ret.c.data[x] = ret.k
    /\ ret.op = "lab_mat_vec_mul" =>
          /\ ret.err = OK
          /\ dim(ret.v) = ret.m
          /\ \A i \in DOMAIN ret.v : ret.v[i] = ret.n

\* a c holding 2 in every entry from the call before was multiplied into
\* with k = 0 and holds 0 in every entry
C24_Witness ==
    /\ ret.op = "mat_mat_mul"
    /\ ret.err = OK
    /\ ret.k = 0
    /\ dims(ret.c0) = <<2, 2>>
    /\ \A x \in DOMAIN ret.c0.data : ret.c0.data[x] = 2
    /\ \A x \in DOMAIN ret.c.data : ret.c.data[x] = 0

----------------------------------------------------------------------------
(* solve_mm_build: main reads a file, solves and verifies, once; ret holds
   how far main has come *)

\* LinSolKind, as main selects it
LinSolKinds == {"Mmp", "Umf"}

\* main: the sym_mirror flag set to false for every solver
sym_mirror_never(name) == FALSE

\* main: the sym_mirror flag of the solver selected
sym_mirror(name) ==
    CASE name = "Mmp" -> FALSE
      [] name = "Umf" -> TRUE

\* main: triangular, forgetting the sym_mirror flag
triangular_mode_of_symmetric(symmetric, mirror) == symmetric

\* main: let triangular = symmetric && !sym_mirror
triangular_mode(symmetric, mirror) == symmetric /\ ~mirror

\* the sequences of at most MaxNnz entries a file of dimension n may list:
\* each cell once, column by column, of the lower triangle if lower
Entries(n, lower) ==
    LET cells == {c \in Cells(n, n) : lower => c[1] >= c[2]}
        triples == {<<c[1], c[2], a>> : c \in cells, a \in Values}
        seqs == UNION {[1 .. len -> triples] : len \in 1 .. MaxNnz}
        place(x) == x[1] + n * x[2]
    IN  {s \in seqs : \A p \in 1 .. Len(s) - 1 : place(s[p]) < place(s[p + 1])}

\* the Matrix-Market files read: general ones, and symmetric ones, which list
\* the lower triangle
MarketFiles ==
    UNION {{[neq |-> n, symmetric |-> sym, entries |-> e] : e \in Entries(n, sym)} :
              n \in 1 .. MaxNeq, sym \in BOOLEAN}

\* the entries from the first on, each off-diagonal one followed by its
\* transposed entry if mirror
RECURSIVE file_triples(_, _)
file_triples(entries, mirror) ==
    IF entries = <<>> THEN <<>>
    ELSE LET e == entries[1]
         IN  (IF mirror /\ e[1] # e[2] THEN <<e, <<e[2], e[1], e[3]>> >> ELSE <<e>>)
                 \o file_triples(Tail(entries), mirror)

\* read_matrix_market(file, sym_mirror): the store holding the entries of the
\* file, those of a symmetric file mirrored if sym_mirror, and the symmetry
read_matrix_market(file, mirror) ==
    LET both == file.symmetric /\ mirror
        max == IF both THEN 2 * Len(file.entries) ELSE Len(file.entries)
    IN  [trip |-> PutAll(new(file.neq, max).t, file_triples(file.entries, both)),
         symmetric |-> file.symmetric]

InitSolve ==
    /\ trip = new(1, 1).t
    /\ fresh = new(1, 1).t
    /\ ret = [op |-> "main"]
    /\ ret_fresh = [op |-> "main"]
    /\ n_put = 0
    /\ put_log = <<>>

\* main until the matrix is read
ReadMatrixMarket ==
    /\ ret.op = "main"
    /\ \E name \in LinSolKinds, file \in MarketFiles :
          LET mirror == sym_mirror(name)
              r == read_matrix_market(file, mirror)
          IN  /\ trip' = r.trip
              /\ ret' = [op |-> "read", name |-> name, sym_mirror |-> mirror,
                          symmetric |-> r.symmetric, file |-> file]
    /\ UNCHANGED <<fresh, ret_fresh, n_put, put_log>>

\* main from there on: the solver leaves some x, and x is verified against a
\* right-hand side of ones
SolveAndVerify ==
    /\ ret.op = "read"
    /\ \E x \in {Vector_filled(neq(trip), 1),
                  [k \in 0 .. neq(trip) - 1 |-> IF k = 0 THEN 1 ELSE 3]} :
          LET rhs == Vector_filled(neq(trip), 1)
              triangular == triangular_mode(ret.symmetric, ret.sym_mirror)
              r == VerifyLinSys_new(trip, x, rhs, triangular)
          IN  ret' = [op |-> "verify", name |-> ret.name, sym_mirror |-> ret.sym_mirror,
                      symmetric |-> ret.symmetric, file |-> ret.file,
                      triangular |-> triangular, x |-> x, rhs |-> rhs,
                      out |-> r.out, err |-> r.err]
    /\ UNCHANGED <<trip, fresh, ret_fresh, n_put, put_log>>

NextSolve == ReadMatrixMarket \/ SolveAndVerify

SpecSolve == InitSolve /\ [][NextSolve]_vars

\* the largest |(a u)[k] - rhs[k]| for the square dense matrix a
Residual(a, u, rhs) ==
    LET n == a.nrow
        au == [k \in 0 .. n - 1 |-> SumOf([j \in 0 .. n - 1 |-> a.data[<<k, j>>] * u[j]])]
    IN  MaxOfSet({0} \cup {abs(au[k] - rhs[k]) : k \in 0 .. n - 1})

\* the dense matrix a with every entry off the diagonal added to its mirror
\* image as well
Mirrored(a) ==
    [a EXCEPT !.data = [c \in DOMAIN a.data |->
        IF c[1] = c[2] THEN a.data[c] ELSE a.data[c] + a.data[<<c[2], c[1]>>]]]

----------------------------------------------------------------------------
(* Claims about the store across calls *)

\* C26: the accessors, to_matrix (as_matrix is to_matrix on a new target),
\* mat_vec_mul and the verification leave the store as it was, failing or
\* not, and the accessors return neq, pos and max without failing.
C26_ConsumersReadOnly ==
    [][/\ ret'.op \in {"accessors", "to_matrix", "mat_vec_mul", "verify"} => trip' = trip
       /\ ret'.op = "accessors" =>
             /\ ret'.err = OK
             /\ ret'.neq = trip.neq
             /\ ret'.nnz_current = trip.pos
             /\ ret'.nnz_maximum = trip.max]_vars

\* a store holding two triples refused a target too large and holds them
\* still
C26_Witness ==
    /\ ret.op = "to_matrix"
    /\ ret.err = ERR_DIMS
    /\ trip.pos = 2
    /\ Len(put_log) = 2
    /\ put_log[1] = <<trip.indices_i[0], trip.indices_j[0], trip.values_aij[0]>>
    /\ put_log[2] = <<trip.indices_i[1], trip.indices_j[1], trip.values_aij[1]>>

\* C27: on one store, every call but reset leaves pos as it was or, if it is
\* a put that succeeds, one higher, and a put that succeeds does raise it;
\* pos gets lower only by reset (new makes another store).
C27_CountMonotone ==
    [][/\ ret'.op \notin {"new", "reset"} =>
             \/ trip'.pos = trip.pos /\ ~(ret'.op = "put" /\ ret'.err = OK)
             \/ trip'.pos = trip.pos + 1 /\ ret'.op = "put" /\ ret'.err = OK
       /\ trip'.pos < trip.pos => ret'.op \in {"new", "reset"}
       /\ ret'.op = "reset" => trip'.pos = 0]_vars

\* two puts succeeded in a row on a store of capacity 2 and a third was
\* refused, pos staying at 2
C27_Witness ==
    /\ ret.op = "put"
    /\ ret.err = ERR_FULL
    /\ trip.pos = 2
    /\ Len(put_log) = 2

\* C28: 0 <= pos <= max; neq and max are those given to new and no call on
\* the store changes them; the three backing sequences have max places from
\* new on, so the place a put writes to, pos, is one of them.
C28_BackingStorageFixed ==
    /\ [](/\ 0 <= trip.pos
          /\ trip.pos <= trip.max
          /\ DOMAIN trip.indices_i = 0 .. trip.max - 1
          /\ DOMAIN trip.indices_j = 0 .. trip.max - 1
          /\ DOMAIN trip.values_aij = 0 .. trip.max - 1
          /\ (ret.op = "new" /\ ret.err = OK) =>
                (trip.neq = ret.neq /\ trip.max = ret.max))
    /\ [][/\ (ret'.op # "new" \/ ret'.err # OK) =>
                (trip'.neq = trip.neq /\ trip'.max = trip.max)
          /\ (ret'.op = "put" /\ ret'.err = OK) =>
                trip.pos \in DOMAIN trip.values_aij]_vars

\* a store of one row and capacity 2 was filled, reset and written to again
C28_Witness ==
    /\ ret.op = "put"
    /\ ret.err = OK
    /\ trip.neq = 1
    /\ trip.max = 2
    /\ trip.pos = 1
    /\ trip.values_aij[1] # 0

----------------------------------------------------------------------------
(* Claims about the verification of an empty store and about the consumers
   together, under Spec *)

\* C29: a successful verification of a store with pos = 0, new or reset,
\* reports max_abs_a = 0, max_abs_ax = 0 and max_abs_diff = relative_error =
\* the largest |rhs[i]|, and reports what it reports for a store created
\* anew, whatever values the puts before the reset left behind.
C29_EmptyStoreVerified ==
    (ret.op = "verify" /\ ret.err = OK /\ trip.pos = 0) =>
        /\ \A r \in ret.out :
              /\ r.max_abs_a = 0
              /\ r.max_abs_ax = 0
              /\ r.max_abs_diff = MaxOfSet({abs(ret.rhs[i]) : i \in DOMAIN ret.rhs})
              /\ r.relative_error.num = r.max_abs_diff * r.relative_error.den
        /\ ret_fresh.out = ret.out

\* the matrix and the product of the example in the documentation of
\* mat_vec_mul come out, and the dense product of the one is the other
MatVecMulDocExample ==
    LET t == PutAll(new(3, 6).t,
                    << <<0, 0, 1>>, <<1, 0, 2>>, <<1, 1, 3>>,
                       <<2, 0, 4>>, <<2, 1, 5>>, <<2, 2, 6>> >>)
        u == Vector_filled(3, 1)
    IN  /\ as_matrix(t) = FromRows(<< <<1, 0, 0>>, <<2, 3, 0>>, <<4, 5, 6>> >>)
        /\ mat_vec_mul(t, u, FALSE) =
               [err |-> OK, v |-> [k \in 0 .. 2 |-> <<1, 5, 15>>[k + 1]]]
        /\ lab_mat_vec_mul(Vector_new(3), 1, as_matrix(t), u).v = mat_vec_mul(t, u, FALSE).v

\* C30: what mat_vec_mul returns without triangular is the dense product of
\* as_matrix with u, duplicates included; the store of the example, rows
\* [1,0,0], [2,3,0], [4,5,6], times [1,1,1] gives [1,5,15].
C30_ConsumersAgree ==
    /\ (ret.op = "mat_vec_mul" /\ ret.err = OK /\ ~ret.triangular) =>
          ret.v = lab_mat_vec_mul(Vector_new(neq(trip)), 1, as_matrix(trip), ret.u).v
    /\ MatVecMulDocExample

\* -2 and 1 are stored at (0, 0), as_matrix holds -1 there, and the product
\* without triangular has -u[0] as its component 0
C30_Witness ==
    /\ ret.op = "mat_vec_mul"
    /\ ret.err = OK
    /\ ~ret.triangular
    /\ Cardinality(PositionsAt(trip, 0, 0)) = 2
    /\ as_matrix(trip).data[<<0, 0>>] = 0 - 1
    /\ ret.v[0] = 0 - ret.u[0]

====
